---- MODULE Spec2Model ----
(***************************************************************************)
(* A model of backend/agent/run.py: AgentRunner.run, the agent execution   *)
(* loop, with the setup that precedes it (setup, setup_tools,              *)
(* setup_mcp_tools, PromptManager.build_system_prompt) and the temporary   *)
(* message MessageManager builds in every iteration.                       *)
(*                                                                         *)
(* run() is an async generator.  One action of the model is the code that  *)
(* runs between two points where the generator hands control back: it      *)
(* ends at a yield (pc = "suspended_*"), at the end of the generator       *)
(* (pc = "done") or at an exception that leaves run() (pc = "raised").     *)
(* The billing service, the message store, the thread-execution engine     *)
(* and its stream are external: their answers are drawn with \E.           *)
(***************************************************************************)
EXTENDS Integers, Sequences, FiniteSets, TLC

\* Largest max_iterations a run is configured with.
MaxIter == 2
\* Most items the engine streams deliver over one run.
MaxChunks == 2

None == "None"

VARIABLES
    pc,                     \* where run() is
    config,                 \* self.config, the AgentConfig of the run
    account_id,             \* self.account_id
    env,                    \* what the services around the run answer in setup
    tool_registry,          \* thread_manager.tool_registry.tools (its keys)
    mcp_wrapper_instance,   \* what setup_mcp_tools() returned
    system_message,         \* what build_system_prompt() returned
    messages,               \* the thread's browser_state / image_context rows
    iteration_count,
    continue_execution,
    last_tool_call,
    agent_should_terminate,
    error_detected,
    iteration,              \* what billing and the store answered in this iteration
    billing_checks,         \* the check_billing_status calls made
    run_thread_calls,       \* the run_thread calls made, with their arguments
    responses,              \* what each run_thread call answered, streams item by item
    yielded,                \* the chunks handed to the caller, each with its yield line
    raised_exc,             \* the exception that left run()
    thrown,                 \* the exception the caller threw into run()
    call,                   \* a direct call of one of the helpers: its arguments
    returned                \* what that call returned

vars == <<pc, config, account_id, env,
          tool_registry, mcp_wrapper_instance, system_message, messages,
          iteration_count, continue_execution, last_tool_call,
          agent_should_terminate, error_detected, iteration, billing_checks,
          run_thread_calls, responses, yielded, raised_exc, thrown, call,
          returned>>

\* What the steps of run() itself never write.
caller_vars == <<thrown, call, returned>>

----------------------------------------------------------------------------
(* Text, JSON values and chunks *)

\* Assistant text is a sequence of pieces; a closing marker is two adjacent
\* pieces, so that "marker in text" is a substring search.
AskMarker == <<"</ask", ">">>
CompleteMarker == <<"</complete", ">">>
TakeoverMarker == <<"</web-browser-takeover", ">">>

Contains(text, marker) ==
    \E i \in 1..(Len(text) - Len(marker) + 1) :
        SubSeq(text, i, i + Len(marker) - 1) = marker

\* A value that may be a mapping, a str holding JSON, a str that is not JSON,
\* or absent.  form: "absent" | "dict" | "json" | "bad".
Meta(form, terminate) == [form |-> form, agent_should_terminate |-> terminate]
Content(form, fn, tag, text) ==
    [form |-> form, function_name |-> fn, xml_tag_name |-> tag, text |-> text]
NoMeta == Meta("absent", FALSE)
NoContent == Content("absent", "", "", <<>>)

\* json.loads(v) raises on a str that is not JSON
LoadsRaises(v) == v.form = "bad"

\* chunk.get(key, {}) for a key that is absent
DefaultDict(v) == IF v.form = "absent" THEN [v EXCEPT !.form = "dict"] ELSE v

Chunk(type, status, metadata, content, message) ==
    [isdict |-> TRUE, type |-> type, status |-> status, metadata |-> metadata,
     content |-> content, message |-> message]

\* An item of the stream that is not a mapping.
NonDictItem ==
    [isdict |-> FALSE, type |-> "", status |-> "", metadata |-> NoMeta,
     content |-> NoContent, message |-> "not a mapping"]

ErrorChunk == Chunk("status", "error", NoMeta, NoContent, "engine error")
TerminateChunk ==
    Chunk("status", "ok", Meta("dict", TRUE),
          Content("dict", "", "complete", <<>>), "")
TerminateBadContentChunk ==
    Chunk("status", "ok", Meta("json", TRUE), Content("bad", "", "", <<>>), "")
BadMetaChunk == Chunk("status", "ok", Meta("bad", TRUE), NoContent, "")
PlainStatusChunk ==
    Chunk("status", "ok", Meta("dict", FALSE),
          Content("dict", "sb_shell", "", <<>>), "")
AssistantChunk(form, text) ==
    Chunk("assistant", "", NoMeta, Content(form, "", "", text), "")
ToolChunk == Chunk("tool", "", NoMeta, Content("json", "", "", <<"x">>), "")

\* Two consecutive assistant chunks of a text whose closing marker is cut
\* by the chunk boundary: "x</ask" and ">y".
SplitMarkerHead == AssistantChunk("json", <<"x", AskMarker[1]>>)
SplitMarkerTail == AssistantChunk("json", <<AskMarker[2], "y">>)

\* The items an engine stream can deliver.
StreamItems ==
    { ErrorChunk, TerminateChunk, TerminateBadContentChunk, BadMetaChunk,
      PlainStatusChunk, NonDictItem,
      SplitMarkerHead, SplitMarkerTail,
      AssistantChunk("bad", <<"x">> \o CompleteMarker),
      AssistantChunk("json", <<"Hi there">> \o CompleteMarker),
      AssistantChunk("dict", TakeoverMarker \o <<"x">>) }

----------------------------------------------------------------------------
(* The per-chunk decisions of the stream loop *)

\* line 995: a status chunk with sub-status error
IsErrorChunk(chunk) ==
    chunk.isdict /\ chunk.type = "status" /\ chunk.status = "error"

\* Mutation of StatusTerminates: the flag is read from metadata that did not
\* parse.
StatusTerminatesUnparsed(chunk) ==
    /\ chunk.type = "status"
    /\ chunk.metadata.agent_should_terminate

\* lines 1000-1008: the chunk is a status chunk whose metadata, parsed when it
\* is a str, has agent_should_terminate set.  A parse failure is swallowed.
StatusTerminates(chunk) ==
    /\ chunk.type = "status"
    /\ ~LoadsRaises(chunk.metadata)
    /\ DefaultDict(chunk.metadata).agent_should_terminate

\* lines 1010-1020: the tool name a terminating status chunk carries.  The
\* content is parsed after the flag is set; when that raises only the flag stays.
StatusToolCall(chunk, ltc) ==
    IF StatusTerminates(chunk) /\ ~LoadsRaises(chunk.content)
    THEN IF chunk.content.function_name # "" THEN chunk.content.function_name
         ELSE IF chunk.content.xml_tag_name # "" THEN chunk.content.xml_tag_name
         ELSE ltc
    ELSE ltc

\* lines 1033-1039: the terminal tool a text names, ask first
\* The same detection with the tests in the order the markers are listed on
\* line 1033 read from the right.
DetectXmlToolTakeoverFirst(text) ==
    IF Contains(text, TakeoverMarker) THEN "web-browser-takeover"
    ELSE IF Contains(text, CompleteMarker) THEN "complete"
    ELSE IF Contains(text, AskMarker) THEN "ask"
    ELSE None

DetectXmlTool(text) ==
    IF Contains(text, AskMarker) THEN "ask"
    ELSE IF Contains(text, CompleteMarker) THEN "complete"
    ELSE IF Contains(text, TakeoverMarker) THEN "web-browser-takeover"
    ELSE None

\* lines 1022-1031: the text an assistant chunk adds to full_response
AssistantText(chunk) ==
    IF /\ chunk.isdict
       /\ chunk.type = "assistant"
       /\ chunk.content.form # "absent"
       /\ ~LoadsRaises(chunk.content)
    THEN chunk.content.text
    ELSE <<>>

\* lines 990, 1031: full_response after these items of one stream
RECURSIVE FullResponse(_)
FullResponse(items) ==
    IF items = <<>> THEN <<>>
    ELSE AssistantText(Head(items)) \o FullResponse(Tail(items))

\* Mutation of DetectionText: the markers are looked for in the accumulated
\* response.
DetectionTextAccumulated(assistant_text, full_response) == full_response

\* lines 1031-1033: full_response has the text added, the markers are looked
\* for in assistant_text
DetectionText(assistant_text, full_response) == assistant_text

\* lines 1022-1046: an assistant chunk with content; parse failures are
\* swallowed.  before: full_response when the chunk arrives
AssistantToolCall(chunk, ltc, before) ==
    LET text == DetectionText(chunk.content.text, before \o chunk.content.text) IN
    IF /\ chunk.type = "assistant"
       /\ chunk.content.form # "absent"
       /\ ~LoadsRaises(chunk.content)
       /\ DetectXmlTool(text) # None
    THEN DetectXmlTool(text)
    ELSE ltc

\* lines 1000-1046 on one chunk: the new last_tool_call
NextToolCall(chunk, ltc, before) ==
    AssistantToolCall(chunk, StatusToolCall(chunk, ltc), before)

TerminalTools == {"ask", "complete", "web-browser-takeover"}

\* Mutation of ShouldStop: only the metadata flag stops the run.
ShouldStopFlagOnly(terminate, ltc) == terminate

\* line 1094
ShouldStop(terminate, ltc) == terminate \/ ltc \in TerminalTools

\* Mutation of LoopCondition: the bound is off by one.
LoopConditionOffByOne(ce, ic, N) == ce /\ ic <= N

\* line 897
LoopCondition(ce, ic, N) == ce /\ ic < N

\* Mutation of ErrorBreaks: the error flag is not looked at.
ErrorIgnored(err) == FALSE

\* line 1052: a set error flag breaks out of the loop
ErrorBreaks(err) == err

\* Mutation of AfterRelay: the stream loop is left after the first chunk.
AfterRelayLeavesStream == "loop"

\* Mutation of AfterRelay: the generator stays at the yield.
AfterRelayStays == "suspended_stream"

\* line 994: after a relayed chunk the async for fetches the next item
AfterRelay == "stream"

----------------------------------------------------------------------------
(* The chunks the runner makes itself *)

RunnerChunk(status, message) ==
    [isdict |-> TRUE, type |-> "status", status |-> status, metadata |-> NoMeta,
     content |-> NoContent, message |-> message]

\* Mutation of BillingChunk: the message goes out without its prefix.
BillingChunkBare(message) == RunnerChunk("stopped", message)

\* lines 902-907
BillingChunk(message) == RunnerChunk("stopped", "Billing limit reached: " \o message)

\* lines 1100-1107
StreamingErrorChunk(e) ==
    RunnerChunk("error", "Error during response streaming: " \o e)

\* lines 1118-1124
RunThreadErrorChunk(e) == RunnerChunk("error", "Error running thread: " \o e)

\* A yield: the chunk goes to the caller, tagged with the line that yields it.
Yield(y, line, chunk) == Append(y, [line |-> line, chunk |-> chunk])

\* Mutation of RelayErrorChunk: the continue comes before the yield.
DropErrorChunk(y, chunk) == y

\* lines 997 and 1048: the two yields that relay a stream chunk
RelayErrorChunk(y, chunk) == Yield(y, 997, chunk)
RelayChunk(y, chunk) == Yield(y, 1048, chunk)

\* Mutation of AtLoopExit: a limit chunk is yielded when the loop ends.
LimitChunkAtLoopExit(y) ==
    Yield(y, 1146, RunnerChunk("stopped", "Maximum iterations reached"))

\* lines 1143-1146: nothing is yielded when the loop condition fails
AtLoopExit(y) == y

----------------------------------------------------------------------------
(* AgentConfig and the agent definition *)

\* A tool's entry in agentpress_tools.  form: "bool" | "dict" (a mapping with
\* an enabled key) | "dict_empty" (a mapping without one) | "other" (a str, a
\* number, None).  enabled: the Python value of the entry (form "bool") or of
\* its enabled key (form "dict"): "True", "False", "None", "0" or "'no'".
ToolEntry(form, enabled) == [form |-> form, enabled |-> enabled]

\* bool(v) of a Python value
Truthy(v) == v \notin {"False", "None", "0", "''"}

\* An entry of configured_mcps: it is taken over as it is.
ConfiguredMcp(name, qualifiedName) ==
    [name |-> name, qualifiedName |-> qualifiedName, isCustom |-> FALSE,
     customType |-> None]

\* An entry of custom_mcps.  name: the pieces of its name; customType, type,
\* qualifiedName: the value of the key, None when the entry has no such key;
\* has_config: the entry has a config key.
CustomMcp(name, customType, type, qualifiedName, has_config) ==
    [name |-> name, customType |-> customType, type |-> type,
     qualifiedName |-> qualifiedName, has_config |-> has_config]

\* The agent definition.  tools_form: "nokey" (no agentpress_tools key) |
\* "dict" | "other" (a value that is not a mapping); agentpress_tools maps the
\* tool names it holds to their entries.
AgentDefinition(suna, agent_id, tools_form, tools, prompt, configured, custom) ==
    [present |-> TRUE, is_suna_default |-> suna, agent_id |-> agent_id,
     tools_form |-> tools_form, agentpress_tools |-> tools,
     system_prompt |-> prompt, configured_mcps |-> configured,
     custom_mcps |-> custom]

NoTools == [t \in {} |-> ToolEntry("bool", "True")]

\* agent_config = None
NoAgentConfig ==
    [present |-> FALSE, is_suna_default |-> FALSE, agent_id |-> None,
     tools_form |-> "nokey", agentpress_tools |-> NoTools,
     system_prompt |-> None, configured_mcps |-> <<>>, custom_mcps |-> <<>>]

SunaDefaultAgent ==
    AgentDefinition(TRUE, "agent-suna", "dict", NoTools, "", <<>>, <<>>)

CustomAgent ==
    AgentDefinition(FALSE, "agent-1", "dict",
        [t \in {"sb_shell_tool", "sb_files_tool", "sb_presentation_tool"} |->
            CASE t = "sb_shell_tool" -> ToolEntry("dict", "False")
              [] t = "sb_files_tool" -> ToolEntry("bool", "True")
              [] OTHER -> ToolEntry("bool", "False")],
        " You are a helper. ", <<ConfiguredMcp(<<"exa">>, "exa")>>,
        <<CustomMcp(<<"My", " ", "Cool", " ", "Tool">>, None, "sse", None, TRUE)>>)

\* An agent whose custom MCP entry has no config key.
BareMcpAgent ==
    AgentDefinition(FALSE, "agent-3", "nokey", NoTools, None, <<>>,
        <<CustomMcp(<<"My", " ", "Cool", " ", "Tool">>, None, None, None, FALSE)>>)

\* A model name is a sequence of pieces, so that "x in name.lower()" is a
\* substring search over pieces.
LowerPiece(p) ==
    CASE p = "Anthropic" -> "anthropic"
      [] p = "OpenAI" -> "openai"
      [] p = "My" -> "my"
      [] p = "Cool" -> "cool"
      [] p = "Tool" -> "tool"
      [] p = "Sonnet" -> "sonnet"
      [] p = "GPT-4" -> "gpt-4"
      [] p = "Gemini-2.5-Pro" -> "gemini-2.5-pro"
      [] p = "Kimi-K2" -> "kimi-k2"
      [] OTHER -> p
Lower(name) == [i \in 1..Len(name) |-> LowerPiece(name[i])]
HasPiece(name, piece) == \E i \in 1..Len(name) : Lower(name)[i] = piece

Gpt5Mini == <<"openai", "/", "gpt-5-mini">>
ClaudeSonnet == <<"Anthropic", "/", "claude-", "sonnet", "-4">>

\* AgentConfig (lines 61-75); the fields the model does not read are left out.
AgentConfig(ac, model, N, builder, target, trace) ==
    [agent_config |-> ac, model_name |-> model, max_iterations |-> N,
     is_agent_builder |-> builder, target_agent_id |-> target, trace |-> trace]

----------------------------------------------------------------------------
(* setup_tools: ToolManager *)

\* lines 835-841
all_tools ==
    << "sb_shell_tool", "sb_files_tool", "sb_deploy_tool", "sb_expose_tool",
       "web_search_tool", "sb_vision_tool", "sb_presentation_tool",
       "sb_image_edit_tool", "sb_sheets_tool", "sb_web_dev_tool",
       "data_providers_tool", "browser_tool", "agent_config_tool",
       "mcp_search_tool", "credential_profile_tool", "workflow_tool",
       "trigger_tool" >>

\* lines 822-832: the value is_tool_enabled returns, which for a mapping is
\* whatever its enabled key holds
is_tool_enabled(raw_tools, tool_name) ==
    IF tool_name \notin DOMAIN raw_tools THEN "True"
    ELSE LET tool_config == raw_tools[tool_name] IN
         CASE tool_config.form = "bool" -> tool_config.enabled
           [] tool_config.form = "dict" -> tool_config.enabled
           [] OTHER -> "True"

\* Mutation of GetDisabledToolsFromConfig: without the marker an empty
\* mapping disables every tool.
GetDisabledToolsEmptyDisablesAll(ac) ==
    IF ~ac.present \/ ac.tools_form # "dict" THEN <<>>
    ELSE IF DOMAIN ac.agentpress_tools = {}
    THEN IF ac.is_suna_default THEN <<>> ELSE all_tools
    ELSE SelectSeq(all_tools,
                   LAMBDA t : ~Truthy(is_tool_enabled(ac.agentpress_tools, t)))

\* lines 803-853
GetDisabledToolsFromConfig(ac) ==
    IF ~ac.present \/ ac.tools_form = "nokey" THEN <<>>
    ELSE IF ac.tools_form # "dict" THEN <<>>
    ELSE IF ac.is_suna_default /\ DOMAIN ac.agentpress_tools = {} THEN <<>>
    ELSE LET disabled ==
                 SelectSeq(all_tools,
                           LAMBDA t :
                               ~Truthy(is_tool_enabled(ac.agentpress_tools, t)))
         IN  IF \E i \in 1..Len(disabled) : disabled[i] = "sb_presentation_tool"
             THEN disabled \o <<"sb_presentation_outline_tool",
                                "sb_presentation_tool_v2">>
             ELSE disabled

\* Mutation of InList: no name is ever found in the list.
InListNever(x, list) == FALSE

\* lines 136, 142, 242, 248: tool_name in disabled_tools
InList(x, list) == \E i \in 1..Len(list) : list[i] = x

\* lines 113-117
CoreTools == {"expand_message_tool", "message_tool", "task_list_tool"}

\* lines 121-133
SandboxTools ==
    { "sb_shell_tool", "sb_files_tool", "sb_deploy_tool", "sb_expose_tool",
      "web_search_tool", "sb_vision_tool", "sb_image_edit_tool",
      "sb_presentation_outline_tool", "sb_presentation_tool_v2",
      "sb_sheets_tool", "sb_web_dev_tool" }

\* lines 233-239
AgentBuilderTools ==
    { "agent_config_tool", "mcp_search_tool", "credential_profile_tool",
      "workflow_tool", "trigger_tool" }

\* lines 84-111, 135-144, 241-251: the tools register_all_tools registers
RegisterAllTools(agent_id, disabled_tools, rapid_api_key) ==
    CoreTools
    \cup { t \in SandboxTools : ~InList(t, disabled_tools) }
    \cup { t \in {"data_providers_tool"} :
             rapid_api_key /\ ~InList(t, disabled_tools) }
    \cup { t \in AgentBuilderTools :
             agent_id # None /\ ~InList(t, disabled_tools) }
    \cup { t \in {"browser_tool"} : ~InList(t, disabled_tools) }

\* lines 791-795
BuilderAgentId(cfg) ==
    IF cfg.agent_config.present /\ cfg.agent_config.is_suna_default
    THEN cfg.agent_config.agent_id
    ELSE IF cfg.is_agent_builder /\ cfg.target_agent_id # None
    THEN cfg.target_agent_id
    ELSE None

----------------------------------------------------------------------------
(* setup_mcp_tools: MCPManager *)

\* lines 357-363: the method names the wrapper's schemas bring
McpMethods == {"mcp_exa_search"}

\* lines 295-303 and 307-315: the normalized descriptor
Descriptor(name, qualifiedName, customType) ==
    [name |-> name, qualifiedName |-> qualifiedName, isCustom |-> TRUE,
     customType |-> customType]

\* line 268
custom_type(custom_mcp) ==
    IF custom_mcp.customType # None THEN custom_mcp.customType
    ELSE IF custom_mcp.type # None THEN custom_mcp.type
    ELSE "sse"

RECURSIVE Join(_)
Join(pieces) == IF pieces = <<>> THEN "" ELSE Head(pieces) \o Join(Tail(pieces))

\* lines 293 and 309: name.replace(' ', '_').lower()
SlugPiece(p) == IF p = " " THEN "_" ELSE LowerPiece(p)
Slug(name) == Join([i \in 1..Len(name) |-> SlugPiece(name[i])])

\* lines 268-316 on one entry: the descriptor appended, or the KeyError of
\* custom_mcp['config'] (line 310) for an entry without a config key; the
\* pipedream branch gives the entry one first (lines 271-272)
NormalizeCustomMcp(custom_mcp) ==
    LET ct == custom_type(custom_mcp) IN
    IF ct = "composio"
    THEN [raises |-> FALSE,
          descriptor |->
              Descriptor(custom_mcp.name,
                         IF custom_mcp.qualifiedName \in {None, ""}
                         THEN "composio." \o Slug(custom_mcp.name)
                         ELSE custom_mcp.qualifiedName,
                         "composio")]
    ELSE IF ct # "pipedream" /\ ~custom_mcp.has_config
    THEN [raises |-> TRUE, descriptor |-> None]
    ELSE [raises |-> FALSE,
          descriptor |->
              Descriptor(custom_mcp.name,
                         "custom_" \o ct \o "_" \o Slug(custom_mcp.name),
                         ct)]

\* lines 266-316: the loop over custom_mcps, left at the first KeyError
RECURSIVE NormalizeCustomMcps(_)
NormalizeCustomMcps(custom_mcps) ==
    IF custom_mcps = <<>> THEN [raises |-> FALSE, descriptors |-> <<>>]
    ELSE LET first == NormalizeCustomMcp(Head(custom_mcps)) IN
         IF first.raises THEN [raises |-> TRUE, descriptors |-> <<>>]
         ELSE LET rest == NormalizeCustomMcps(Tail(custom_mcps)) IN
              [raises |-> rest.raises,
               descriptors |-> <<first.descriptor>> \o rest.descriptors]

\* lines 270-272: a pipedream entry without a config key is given one, in
\* the caller's mapping
WithConfigKey(custom_mcp) ==
    IF custom_type(custom_mcp) = "pipedream"
    THEN [custom_mcp EXCEPT !.has_config = TRUE]
    ELSE custom_mcp

\* lines 266-316: the custom entries of the caller's mapping after the loop,
\* which is left at the first KeyError
RECURSIVE MutatedCustomMcps(_)
MutatedCustomMcps(custom_mcps) ==
    IF custom_mcps = <<>> THEN <<>>
    ELSE IF NormalizeCustomMcp(Head(custom_mcps)).raises THEN custom_mcps
    ELSE <<WithConfigKey(Head(custom_mcps))>> \o MutatedCustomMcps(Tail(custom_mcps))

\* lines 259-316: agent_config as register_mcp_tools leaves it
AgentConfigAfter(ac) == [ac EXCEPT !.custom_mcps = MutatedCustomMcps(@)]

\* lines 261-316: the merged list, configured entries first
AllMcps(ac) ==
    ac.configured_mcps \o NormalizeCustomMcps(ac.custom_mcps).descriptors

\* line 310 raised for one of the custom entries
McpKeyError(ac) == NormalizeCustomMcps(ac.custom_mcps).raises

\* line 505: the agent has configured or custom MCPs
HasMcps(ac) == ac.configured_mcps # <<>> \/ ac.custom_mcps # <<>>

\* Mutation of McpRegistered: the schemas are spliced in whatever happened.
McpRegisteredAnyway(initialized) == TRUE

\* lines 322-369: the schemas are written into the registry, and the wrapper
\* returned, only when initialize_and_register_tools() returned
McpRegistered(initialized) == initialized

\* lines 259-369: what register_mcp_tools returns and adds to the registry
RegisterMcpTools(ac, initialized) ==
    IF McpKeyError(ac)
    THEN [raises |-> TRUE, all_mcps |-> <<>>, wrapper |-> None, tools |-> {},
          agent_config |-> AgentConfigAfter(ac)]
    ELSE IF AllMcps(ac) = <<>>
    THEN [raises |-> FALSE, all_mcps |-> <<>>, wrapper |-> None, tools |-> {},
          agent_config |-> AgentConfigAfter(ac)]
    ELSE [raises |-> FALSE, all_mcps |-> AllMcps(ac),
          agent_config |-> AgentConfigAfter(ac),
          wrapper |-> IF McpRegistered(initialized) THEN "wrapper" ELSE None,
          tools |-> IF McpRegistered(initialized) THEN McpMethods ELSE {}]

----------------------------------------------------------------------------
(* PromptManager.build_system_prompt: the prompt as the list of its parts *)

\* lines 458-462
DefaultSystemContent(model) ==
    IF ~HasPiece(model, "anthropic")
    THEN <<"default_prompt", "sample_assistant_response">>
    ELSE <<"default_prompt">>

\* str.strip() on the prompts the model uses
Strip(text) ==
    CASE text = " You are a helper. " -> "You are a helper."
      [] text = "   " -> ""
      [] OTHER -> text

\* Mutation of BaseContent: the custom prompt wins over agent-builder mode.
BaseContentCustomFirst(model, ac, builder) ==
    IF ac.present /\ ac.system_prompt \notin {None, ""}
    THEN <<Strip(ac.system_prompt)>>
    ELSE IF builder THEN <<"agent_builder_prompt">>
    ELSE DefaultSystemContent(model)

\* lines 464-469; system_prompt is None when the agent has no such key
BaseContent(model, ac, builder) ==
    IF builder THEN <<"agent_builder_prompt">>
    ELSE IF ac.present /\ ac.system_prompt \notin {None, ""}
    THEN <<Strip(ac.system_prompt)>>
    ELSE DefaultSystemContent(model)

\* lines 458-623; kb: the knowledge-base RPC returned a non-blank context
BuildSystemPrompt(model, ac, builder, wrapper, kb) ==
    [role |-> "system",
     content |->
        BaseContent(model, ac, builder)
        \o (IF ac.present /\ ac.agent_id # None /\ kb
            THEN <<"knowledge_base">> ELSE <<>>)
        \o (IF ac.present /\ HasMcps(ac) /\ wrapper # None
            THEN <<"mcp_info">> ELSE <<>>)
        \o <<"datetime_info">>]

\* The same lookup with the second test moved to the front.
GetMaxTokensGptFirst(model) ==
    IF HasPiece(model, "gpt-4") THEN 4096
    ELSE IF HasPiece(model, "sonnet") THEN 8192
    ELSE IF HasPiece(model, "gemini-2.5-pro") THEN 64000
    ELSE IF HasPiece(model, "kimi-k2") THEN 8192
    ELSE 0

\* lines 862-871
GetMaxTokens(model) ==
    IF HasPiece(model, "sonnet") THEN 8192
    ELSE IF HasPiece(model, "gpt-4") THEN 4096
    ELSE IF HasPiece(model, "gemini-2.5-pro") THEN 64000
    ELSE IF HasPiece(model, "kimi-k2") THEN 8192
    ELSE 0 \* None: no override

----------------------------------------------------------------------------
(* MessageManager.build_temporary_message *)

\* A row of the messages table.  The content is a mapping or a str ("json",
\* or "bad" when it does not parse); the flags say which keys hold a value.
Row(id, type, form, text, shot, url, b64, mime) ==
    [message_id |-> id, type |-> type,
     content |-> [form |-> form, text |-> text, screenshot_base64 |-> shot,
                  image_url |-> url, base64 |-> b64, mime_type |-> mime]]

\* .eq('type', t).order('created_at', desc=True).limit(1): the index of the
\* latest row of the type, 0 when there is none
LatestOfType(rows, type) ==
    IF \E i \in 1..Len(rows) : rows[i].type = type
    THEN CHOOSE i \in 1..Len(rows) :
            /\ rows[i].type = type
            /\ \A j \in (i+1)..Len(rows) : rows[j].type # type
    ELSE 0

Block(type, part, id) == [type |-> type, part |-> part, row |-> id]

\* lines 636-678
BrowserStateBlocks(rows, model) ==
    LET i == LatestOfType(rows, "browser_state") IN
    IF i = 0 \/ LoadsRaises(rows[i].content) THEN <<>>
    ELSE LET c == rows[i].content IN
         (IF c.text THEN <<Block("text", "browser_state", rows[i].message_id)>>
          ELSE <<>>)
         \o (IF \/ HasPiece(model, "gemini")
                \/ HasPiece(model, "anthropic")
                \/ HasPiece(model, "openai")
             THEN IF c.image_url
                  THEN <<Block("image_url", "screenshot_url", rows[i].message_id)>>
                  ELSE IF c.screenshot_base64
                  THEN <<Block("image_url", "screenshot_base64", rows[i].message_id)>>
                  ELSE <<>>
             ELSE <<>>)

\* lines 684-703
ImageContextBlocks(rows) ==
    LET i == LatestOfType(rows, "image_context") IN
    IF i = 0 \/ LoadsRaises(rows[i].content) THEN <<>>
    ELSE IF rows[i].content.base64 /\ rows[i].content.mime_type
    THEN << Block("text", "image_path", rows[i].message_id),
            Block("image_url", "image_data", rows[i].message_id) >>
    ELSE <<>>

\* Mutation of AfterImageContextDelete: the delete takes the rows of both
\* context types.
AfterContextDelete(rows, delete_ok) ==
    LET i == LatestOfType(rows, "image_context") IN
    IF i = 0 \/ LoadsRaises(rows[i].content) \/ ~delete_ok THEN rows
    ELSE SelectSeq(rows, LAMBDA r : r.type \notin {"image_context", "browser_state"})

\* line 705: the delete of the latest image_context row, reached when its
\* content parsed; delete_ok: the store carried the delete out
AfterImageContextDelete(rows, delete_ok) ==
    LET i == LatestOfType(rows, "image_context") IN
    IF i = 0 \/ LoadsRaises(rows[i].content) \/ ~delete_ok THEN rows
    ELSE SelectSeq(rows, LAMBDA r : r.message_id # rows[i].message_id)

\* Mutation of TemporaryMessage: a user message is returned whatever the list.
TemporaryMessageAlways(blocks) == [role |-> "user", content |-> blocks]

\* lines 709-751: None (role None) for an empty block list
TemporaryMessage(blocks) ==
    IF blocks # <<>> THEN [role |-> "user", content |-> blocks]
    ELSE [role |-> None, content |-> <<>>]

\* lines 633-751: the message returned and the store left behind
BuildTemporaryMessage(rows, model, delete_ok) ==
    [message |-> TemporaryMessage(BrowserStateBlocks(rows, model)
                                  \o ImageContextBlocks(rows)),
     messages |-> AfterImageContextDelete(rows, delete_ok)]

----------------------------------------------------------------------------
(* The runs the model starts from *)

EmptyStore == <<>>
BrowserAndImageStore ==
    << Row(1, "browser_state", "json", TRUE, TRUE, FALSE, FALSE, FALSE),
       Row(2, "image_context", "json", FALSE, FALSE, FALSE, TRUE, TRUE) >>
TwoImageStore ==
    << Row(1, "image_context", "dict", FALSE, FALSE, FALSE, TRUE, TRUE),
       Row(2, "image_context", "json", FALSE, FALSE, FALSE, FALSE, TRUE) >>

\* What the services around the run answer during setup: the account of the
\* thread, the rows of the project, whether config.RAPID_API_KEY is set,
\* whether the MCP wrapper's initialize_and_register_tools() returns (or
\* raises), whether the knowledge-base RPC returns a context, and the latest
\* user message ("none" | "ok" | "bad": a str that is not JSON).
Env(account, rows, rapid, initialized, kb, user_message) ==
    [account |-> account, project_rows |-> rows, rapid_api_key |-> rapid,
     mcp_initialized |-> initialized, kb |-> kb, user_message |-> user_message]

NoProject == <<>>
ProjectWithoutSandbox == <<[project_id |-> "p1", sandbox_id |-> ""]>>
ProjectWithSandbox == <<[project_id |-> "p1", sandbox_id |-> "sandbox-1"]>>

\* Each run: its AgentConfig, the rows its thread holds, the services' answers.
Scenarios(N) ==
    { [config |-> AgentConfig(NoAgentConfig, Gpt5Mini, N, FALSE, None, None),
       messages |-> EmptyStore,
       env |-> Env("account-1", ProjectWithoutSandbox, FALSE, TRUE, FALSE, "none")],
      [config |-> AgentConfig(SunaDefaultAgent, ClaudeSonnet, N, FALSE, None, "trace"),
       messages |-> BrowserAndImageStore,
       env |-> Env("account-1", ProjectWithSandbox, TRUE, TRUE, TRUE, "ok")],
      [config |-> AgentConfig(CustomAgent, Gpt5Mini, N, TRUE, "agent-2", None),
       messages |-> TwoImageStore,
       env |-> Env("account-1", ProjectWithSandbox, TRUE, TRUE, FALSE, "ok")],
      [config |-> AgentConfig(CustomAgent, Gpt5Mini, N, FALSE, None, None),
       messages |-> EmptyStore,
       env |-> Env("account-1", ProjectWithoutSandbox, FALSE, FALSE, TRUE, "ok")],
      [config |-> AgentConfig(NoAgentConfig, Gpt5Mini, N, FALSE, None, None),
       messages |-> EmptyStore,
       env |-> Env(None, ProjectWithSandbox, TRUE, TRUE, FALSE, "ok")],
      [config |-> AgentConfig(SunaDefaultAgent, Gpt5Mini, N, FALSE, None, None),
       messages |-> EmptyStore,
       env |-> Env("account-1", NoProject, TRUE, TRUE, FALSE, "ok")],
      [config |-> AgentConfig(NoAgentConfig, ClaudeSonnet, N, FALSE, None, None),
       messages |-> EmptyStore,
       env |-> Env("account-1", ProjectWithSandbox, TRUE, TRUE, FALSE, "bad")],
      [config |-> AgentConfig(BareMcpAgent, Gpt5Mini, N, FALSE, None, None),
       messages |-> EmptyStore,
       env |-> Env("account-1", ProjectWithSandbox, TRUE, TRUE, FALSE, "ok")] }

\* What the billing service, the message store and the engine answer.
BillingMessages == {"quota exceeded", ""}
LatestTypes == {"none", "user", "assistant"}
Exceptions == {"connection reset"}
ErrorResponse == Chunk("status", "error", NoMeta, NoContent, "engine failed")

\* What billing and the latest-message query answered in an iteration.
IterationRecord(can_run, message, latest) ==
    [can_run |-> can_run, message |-> message, latest |-> latest]

\* The runner's own variables before run() has done anything.
FreshRun ==
    /\ account_id = None
    /\ tool_registry = {}
    /\ mcp_wrapper_instance = None
    /\ system_message = [role |-> None, content |-> <<>>]
    /\ iteration_count = 0
    /\ continue_execution = TRUE
    /\ last_tool_call = None
    /\ agent_should_terminate = FALSE
    /\ error_detected = FALSE
    /\ iteration = IterationRecord(TRUE, "", "unasked")
    /\ billing_checks = 0
    /\ run_thread_calls = <<>>
    /\ responses = <<>>
    /\ yielded = <<>>
    /\ raised_exc = None
    /\ thrown = None

Init ==
    /\ pc = "start"
    /\ \E N \in 0..MaxIter : \E sc \in Scenarios(N) :
           config = sc.config /\ messages = sc.messages /\ env = sc.env
    /\ FreshRun
    /\ call = None
    /\ returned = None

----------------------------------------------------------------------------
(* run(): setup *)

\* Mutation of AccountMissing: the account check is skipped.
AccountNeverMissing(account) == FALSE

\* line 772
AccountMissing(account) == account = None

\* line 776
ProjectMissing(rows) == Len(rows) = 0

\* lines 759-785, called at line 874
Setup ==
    /\ pc = "start"
    /\ config' = IF config.trace = None
                 THEN [config EXCEPT !.trace = "trace:run_agent"]
                 ELSE config
    /\ account_id' = env.account
    /\ IF AccountMissing(env.account)
       THEN /\ pc' = "raised"
            /\ raised_exc' = "ValueError: Could not determine account ID for thread"
       ELSE IF ProjectMissing(env.project_rows)
       THEN /\ pc' = "raised"
            /\ raised_exc' = "ValueError: Project not found"
       ELSE /\ pc' = "setup_tools"
            /\ UNCHANGED raised_exc
    /\ UNCHANGED <<caller_vars, billing_checks, env, tool_registry, mcp_wrapper_instance, system_message,
                   messages, iteration_count, continue_execution, last_tool_call,
                   agent_should_terminate, error_detected, iteration,
                   run_thread_calls, responses, yielded>>

\* lines 787-801, called at line 875
SetupTools ==
    /\ pc = "setup_tools"
    /\ tool_registry' =
           tool_registry \cup
           RegisterAllTools(BuilderAgentId(config),
                            GetDisabledToolsFromConfig(config.agent_config),
                            env.rapid_api_key)
    /\ pc' = "setup_mcp_tools"
    /\ UNCHANGED <<caller_vars, billing_checks, config, account_id, env, mcp_wrapper_instance,
                   system_message, messages, iteration_count, continue_execution,
                   last_tool_call, agent_should_terminate, error_detected,
                   iteration, run_thread_calls, responses, yielded, raised_exc>>

\* lines 855-860 and 261-369, called at line 876
SetupMcpTools ==
    /\ pc = "setup_mcp_tools"
    /\ IF ~config.agent_config.present
       THEN /\ pc' = "build_system_prompt"
            /\ UNCHANGED <<config, mcp_wrapper_instance, tool_registry, raised_exc>>
       ELSE LET r == RegisterMcpTools(config.agent_config, env.mcp_initialized)
            IN  /\ config' = [config EXCEPT !.agent_config = r.agent_config]
                /\ IF r.raises
                   THEN /\ pc' = "raised"
                        /\ raised_exc' = "KeyError: 'config'"
                        /\ UNCHANGED <<mcp_wrapper_instance, tool_registry>>
                   ELSE /\ pc' = "build_system_prompt"
                        /\ mcp_wrapper_instance' = r.wrapper
                        /\ tool_registry' = tool_registry \cup r.tools
                        /\ UNCHANGED raised_exc
    /\ UNCHANGED <<caller_vars, billing_checks, account_id, env, system_message, messages,
                   iteration_count, continue_execution, last_tool_call,
                   agent_should_terminate, error_detected, iteration,
                   run_thread_calls, responses, yielded>>

\* lines 878-895: the system prompt, then the latest user message, whose
\* content is parsed when it is a str
Prepare ==
    /\ pc = "build_system_prompt"
    /\ system_message' =
           BuildSystemPrompt(config.model_name, config.agent_config,
                             config.is_agent_builder, mcp_wrapper_instance, env.kb)
    /\ IF env.user_message = "bad"
       THEN pc' = "raised" /\ raised_exc' = "JSONDecodeError"
       ELSE pc' = "loop" /\ UNCHANGED raised_exc
    /\ UNCHANGED <<caller_vars, billing_checks, config, account_id, env, tool_registry,
                   mcp_wrapper_instance, messages, iteration_count,
                   continue_execution, last_tool_call, agent_should_terminate,
                   error_detected, iteration, run_thread_calls, responses,
                   yielded>>

----------------------------------------------------------------------------
(* run(): the loop *)

setup_vars == <<config, account_id, env, tool_registry,
                mcp_wrapper_instance, system_message, raised_exc>>

\* line 897 holds: an iteration starts
IterationStarts ==
    /\ pc = "loop"
    /\ LoopCondition(continue_execution, iteration_count, config.max_iterations)

\* lines 897, 1143-1146: the loop condition fails and the generator ends
LoopExit ==
    /\ pc = "loop"
    /\ ~LoopCondition(continue_execution, iteration_count, config.max_iterations)
    /\ yielded' = AtLoopExit(yielded)
    /\ pc' = "done"
    /\ UNCHANGED <<setup_vars, caller_vars, billing_checks, messages, iteration_count, continue_execution,
                   last_tool_call, agent_should_terminate, error_detected,
                   iteration, run_thread_calls, responses>>

\* lines 898-908: billing says no; the stopped chunk is yielded
BillingStop ==
    /\ IterationStarts
    /\ iteration_count' = iteration_count + 1
    /\ billing_checks' = billing_checks + 1
    /\ \E message \in BillingMessages :
        /\ iteration' = (IterationRecord(FALSE, message, "unasked"))
        /\ yielded' = Yield(yielded, 903, BillingChunk(message))
    /\ pc' = "suspended_break"
    /\ UNCHANGED <<setup_vars, caller_vars, messages, continue_execution, last_tool_call,
                   agent_should_terminate, error_detected, run_thread_calls,
                   responses>>

\* Mutation of LatestIsAssistant: the type is compared with the wrong word.
LatestIsAssistantWrongType(latest) == latest = "Assistant"

\* lines 946-948
LatestIsAssistant(latest) == latest = "assistant"

\* lines 898-950: billing passes and the latest message is the assistant's
LastMessageAssistant ==
    /\ IterationStarts
    /\ iteration_count' = iteration_count + 1
    /\ billing_checks' = billing_checks + 1
    /\ \E latest \in LatestTypes :
        /\ LatestIsAssistant(latest)
        /\ iteration' = (IterationRecord(TRUE, "", latest))
    /\ continue_execution' = FALSE
    /\ pc' = "done"
    /\ UNCHANGED <<setup_vars, caller_vars, messages, last_tool_call, agent_should_terminate,
                   error_detected, run_thread_calls, responses, yielded>>

\* lines 898-981: billing passes, the latest message is not the assistant's,
\* the temporary message is built and run_thread is called
\* Mutation of SystemPromptArgument: the prompt gets a fresh date and time in
\* every iteration after the first.
SystemPromptPerIteration(sm, n) ==
    IF n > 1 THEN [sm EXCEPT !.content = Append(@, "datetime_info")] ELSE sm

\* line 959: system_prompt=system_message, the message built at lines 878-882,
\* in iteration n
SystemPromptArgument(sm, n) == sm

CallRunThread ==
    /\ IterationStarts
    /\ iteration_count' = iteration_count + 1
    /\ billing_checks' = billing_checks + 1
    /\ \E latest \in LatestTypes :
        /\ ~LatestIsAssistant(latest)
        /\ iteration' = (IterationRecord(TRUE, "", latest))
    /\ \E delete_ok \in BOOLEAN :
        LET tm == BuildTemporaryMessage(messages, config.model_name, delete_ok) IN
        /\ messages' = tm.messages
        /\ run_thread_calls' =
               Append(run_thread_calls,
                      [iteration |-> iteration_count + 1,
                       system_prompt |->
                           SystemPromptArgument(system_message, iteration_count + 1),
                       llm_max_tokens |-> GetMaxTokens(config.model_name),
                       temporary_message |-> tm.message])

Response(kind, state) == [kind |-> kind, items |-> <<>>, state |-> state]

\* lines 1111-1125: run_thread raises
RunThreadRaises ==
    /\ CallRunThread
    /\ responses' = Append(responses, Response("raise", "none"))
    /\ \E e \in Exceptions : yielded' = Yield(yielded, 1120, RunThreadErrorChunk(e))
    /\ pc' = "suspended_break"
    /\ UNCHANGED <<setup_vars, caller_vars, continue_execution, last_tool_call,
                   agent_should_terminate, error_detected>>

\* lines 983-985: run_thread returns a mapping whose status is error
RunThreadErrorResult ==
    /\ CallRunThread
    /\ responses' = Append(responses, Response("error_dict", "none"))
    /\ yielded' = Yield(yielded, 984, ErrorResponse)
    /\ pc' = "suspended_break"
    /\ UNCHANGED <<setup_vars, caller_vars, continue_execution, last_tool_call,
                   agent_should_terminate, error_detected>>

\* lines 1052-1055 and 1094-1097: what follows the consumption of a response
AfterConsumption(err, terminate, ltc) ==
    IF ErrorBreaks(err)
    THEN pc' = "done" /\ UNCHANGED continue_execution
    ELSE /\ pc' = "loop"
         /\ continue_execution' =
                IF ShouldStop(terminate, ltc) THEN FALSE ELSE continue_execution

\* lines 987-993, 1049-1055: run_thread returns something that is neither an
\* error mapping nor an async iterable
RunThreadNotIterable ==
    /\ CallRunThread
    /\ responses' = Append(responses, Response("other", "none"))
    /\ last_tool_call' = None
    /\ agent_should_terminate' = FALSE
    /\ error_detected' = TRUE
    /\ AfterConsumption(TRUE, FALSE, None)
    /\ UNCHANGED <<setup_vars, caller_vars, yielded>>

\* lines 987-994: run_thread returns a stream
RunThreadStream ==
    /\ CallRunThread
    /\ responses' = Append(responses, Response("stream", "open"))
    /\ last_tool_call' = None
    /\ agent_should_terminate' = FALSE
    /\ error_detected' = FALSE
    /\ pc' = "stream"
    /\ UNCHANGED <<setup_vars, caller_vars, continue_execution, yielded>>

RECURSIVE ItemCount(_)
ItemCount(rs) ==
    IF rs = <<>> THEN 0 ELSE Len(Head(rs).items) + ItemCount(Tail(rs))

\* The stream of the current iteration delivers one more item.
Delivered(item) ==
    /\ pc = "stream"
    /\ ItemCount(responses) < MaxChunks
    /\ responses' = [responses EXCEPT ![Len(responses)].items = Append(@, item)]

\* lines 994-998: an error chunk sets the flag and is yielded
StreamErrorChunk ==
    /\ \E item \in StreamItems :
        /\ IsErrorChunk(item)
        /\ Delivered(item)
        /\ yielded' = RelayErrorChunk(yielded, item)
    /\ error_detected' = TRUE
    /\ pc' = "suspended_stream"
    /\ UNCHANGED <<setup_vars, caller_vars, billing_checks, messages, iteration_count, continue_execution,
                   last_tool_call, agent_should_terminate, iteration,
                   run_thread_calls>>

\* lines 994-1048: any other chunk is inspected and yielded
StreamChunk ==
    /\ \E item \in StreamItems :
        /\ item.isdict /\ ~IsErrorChunk(item)
        /\ Delivered(item)
        /\ agent_should_terminate' =
               (agent_should_terminate \/ StatusTerminates(item))
        /\ last_tool_call' =
               NextToolCall(item, last_tool_call,
                            FullResponse(responses[Len(responses)].items))
        /\ yielded' = RelayChunk(yielded, item)
    /\ pc' = "suspended_stream"
    /\ UNCHANGED <<setup_vars, caller_vars, billing_checks, messages, iteration_count, continue_execution,
                   error_detected, iteration, run_thread_calls>>

\* lines 1000, 1099-1109: an item that is not a mapping has no get(); the
\* exception is caught around the stream loop
StreamNonDict ==
    /\ \E item \in StreamItems :
        /\ ~item.isdict
        /\ pc = "stream"
        /\ ItemCount(responses) < MaxChunks
        /\ responses' = [responses EXCEPT
                            ![Len(responses)].items = Append(@, item),
                            ![Len(responses)].state = "abandoned"]
    /\ yielded' = Yield(yielded, 1103,
                        StreamingErrorChunk("object has no attribute 'get'"))
    /\ pc' = "suspended_break"
    /\ UNCHANGED <<setup_vars, caller_vars, billing_checks, messages, iteration_count, continue_execution,
                   last_tool_call, agent_should_terminate, error_detected,
                   iteration, run_thread_calls>>

\* lines 994, 1099-1109: the stream raises instead of delivering an item
StreamRaises ==
    /\ pc = "stream"
    /\ responses' = [responses EXCEPT ![Len(responses)].state = "raised"]
    /\ \E e \in Exceptions : yielded' = Yield(yielded, 1103, StreamingErrorChunk(e))
    /\ pc' = "suspended_break"
    /\ UNCHANGED <<setup_vars, caller_vars, billing_checks, messages, iteration_count, continue_execution,
                   last_tool_call, agent_should_terminate, error_detected,
                   iteration, run_thread_calls>>

\* lines 994, 1052-1055, 1094-1097: the stream is exhausted
StreamExhausted ==
    /\ pc = "stream"
    /\ responses' = [responses EXCEPT ![Len(responses)].state = "exhausted"]
    /\ AfterConsumption(error_detected, agent_should_terminate, last_tool_call)
    /\ UNCHANGED <<setup_vars, caller_vars, billing_checks, messages, iteration_count, last_tool_call,
                   agent_should_terminate, error_detected, iteration,
                   run_thread_calls, yielded>>

\* The caller asks for the next chunk: after a relayed chunk the stream loop
\* goes on (lines 998, 1048); after any other yield a break ends the generator
\* (lines 908, 985, 1109, 1125).
ResumeStream ==
    /\ pc = "suspended_stream"
    /\ pc' = AfterRelay
    /\ UNCHANGED <<setup_vars, caller_vars, billing_checks, messages, iteration_count, continue_execution,
                   last_tool_call, agent_should_terminate, error_detected,
                   iteration, run_thread_calls, responses, yielded>>

ResumeBreak ==
    /\ pc = "suspended_break"
    /\ pc' = "done"
    /\ UNCHANGED <<setup_vars, caller_vars, billing_checks, messages, iteration_count, continue_execution,
                   last_tool_call, agent_should_terminate, error_detected,
                   iteration, run_thread_calls, responses, yielded>>

----------------------------------------------------------------------------
(* run(): the caller closes or cancels the generator *)

\* Mutation of ExceptException: the handlers catch every BaseException.
ExceptBaseException(e) == TRUE

\* lines 1099 and 1111: "except Exception" does not catch GeneratorExit or
\* asyncio.CancelledError, which derive from BaseException
ExceptException(e) == e \notin {"GeneratorExit", "CancelledError"}

\* An exception e thrown at a point of run(): inside the inner try (lines
\* 993-1097) the handler of line 1099 yields at 1103 when it catches e; inside
\* the outer try only (lines 957-990, 1100-1109) the handler of line 1111
\* yields at 1120; anywhere else, or when no handler catches e, e leaves
\* run() and the generator is closed.
ThrowInto(site, e) ==
    /\ thrown' = e
    /\ IF site = "inner" /\ ExceptException(e)
       THEN /\ yielded' = Yield(yielded, 1103, StreamingErrorChunk(e))
            /\ pc' = "suspended_break"
       ELSE IF site \in {"inner", "outer"} /\ ExceptException(e)
       THEN /\ yielded' = Yield(yielded, 1120, RunThreadErrorChunk(e))
            /\ pc' = "suspended_break"
       ELSE /\ yielded' = yielded
            /\ pc' = "closed"

\* The try blocks around a yield line.
YieldSite(line) ==
    IF line \in {997, 1048} THEN "inner"
    ELSE IF line \in {984, 1103} THEN "outer"
    ELSE "none"

\* aclose() while run() is suspended at a yield: GeneratorExit is raised there
Close ==
    /\ pc \in {"suspended_stream", "suspended_break"}
    /\ thrown = None
    /\ ThrowInto(YieldSite(yielded[Len(yielded)].line), "GeneratorExit")
    /\ UNCHANGED <<setup_vars, call, returned, billing_checks, messages,
                   iteration_count, continue_execution, last_tool_call,
                   agent_should_terminate, error_detected, iteration,
                   run_thread_calls, responses>>

\* The task is cancelled while run() awaits the next item of the stream
\* (line 994)
CancelStream ==
    /\ pc = "stream"
    /\ thrown = None
    /\ responses' = [responses EXCEPT ![Len(responses)].state = "cancelled"]
    /\ ThrowInto("inner", "CancelledError")
    /\ UNCHANGED <<setup_vars, call, returned, billing_checks, messages,
                   iteration_count, continue_execution, last_tool_call,
                   agent_should_terminate, error_detected, iteration,
                   run_thread_calls>>

\* The task is cancelled while run() awaits check_billing_status (line 900),
\* outside every try
CancelBillingCheck ==
    /\ IterationStarts
    /\ thrown = None
    /\ iteration_count' = iteration_count + 1
    /\ billing_checks' = billing_checks + 1
    /\ ThrowInto("none", "CancelledError")
    /\ UNCHANGED <<setup_vars, call, returned, messages, continue_execution,
                   last_tool_call, agent_should_terminate, error_detected,
                   iteration, run_thread_calls, responses>>

\* The task is cancelled while run() awaits run_thread (line 957), inside the
\* outer try
CancelRunThread ==
    /\ CallRunThread
    /\ thrown = None
    /\ responses' = Append(responses, Response("cancelled", "none"))
    /\ ThrowInto("outer", "CancelledError")
    /\ UNCHANGED <<setup_vars, call, returned, continue_execution,
                   last_tool_call, agent_should_terminate, error_detected>>

Next ==
    \/ Setup
    \/ SetupTools
    \/ SetupMcpTools
    \/ Prepare
    \/ LoopExit
    \/ BillingStop
    \/ LastMessageAssistant
    \/ RunThreadRaises
    \/ RunThreadErrorResult
    \/ RunThreadNotIterable
    \/ RunThreadStream
    \/ StreamErrorChunk
    \/ StreamChunk
    \/ StreamNonDict
    \/ StreamRaises
    \/ StreamExhausted
    \/ ResumeStream
    \/ ResumeBreak
    \/ Close
    \/ CancelStream
    \/ CancelBillingCheck
    \/ CancelRunThread

Spec == Init /\ [][Next]_vars

\* The steps run() takes by itself once the call it awaits has returned:
\* every await of run() is on an external call (the store, the billing
\* check, run_thread, the next item of the stream), and an engine stream
\* delivers at most MaxChunks items before it ends.
RunSteps ==
    \/ Setup \/ SetupTools \/ SetupMcpTools \/ Prepare
    \/ LoopExit \/ BillingStop \/ LastMessageAssistant
    \/ RunThreadRaises \/ RunThreadErrorResult \/ RunThreadNotIterable
    \/ RunThreadStream
    \/ StreamErrorChunk \/ StreamChunk \/ StreamNonDict \/ StreamRaises
    \/ StreamExhausted

\* lines 1191-1192: the caller's async for asks for the chunk after each one
\* it was yielded.
Consumes == ResumeStream \/ ResumeBreak

\* The run under the assumption that every external call returns and that
\* the caller keeps consuming; closing and cancelling stay possible but are
\* never required.
LiveSpec == Init /\ [][Next]_vars /\ WF_vars(RunSteps) /\ WF_vars(Consumes)

----------------------------------------------------------------------------
(* The helpers of run(), called directly: call holds the arguments of one    *)
(* call, the action of the helper applies it and returned holds its result.  *)

\* Most entries of a custom_mcps list.
MaxMcps == 2
\* Most rows of a message store a helper is called on.
MaxRows == 2

\* The tool names and entries of the agentpress_tools mappings; my_tool is a
\* name _get_disabled_tools_from_config does not know.
ToolNames == {"sb_shell_tool", "sb_files_tool", "sb_presentation_tool", "my_tool"}
ToolEntries ==
    { ToolEntry("bool", "True"), ToolEntry("bool", "False"),
      ToolEntry("dict", "True"), ToolEntry("dict", "False"),
      ToolEntry("dict", "None"), ToolEntry("dict_empty", "True"),
      ToolEntry("other", "'no'") }
ToolConfigs == UNION { [S -> ToolEntries] : S \in SUBSET ToolNames }

DisabledToolsCalls ==
    { [fn |-> "_get_disabled_tools_from_config", agent_config |-> ac] :
        ac \in { NoAgentConfig }
               \cup { AgentDefinition(suna, "agent-1", form, NoTools, None, <<>>, <<>>) :
                        suna \in BOOLEAN, form \in {"nokey", "other"} }
               \cup { AgentDefinition(suna, "agent-1", "dict", tools, None, <<>>, <<>>) :
                        suna \in BOOLEAN, tools \in ToolConfigs } }

\* The names a disabled_tools list is made of, in a fixed order.
DisabledNames ==
    << "message_tool", "sb_shell_tool", "sb_presentation_tool",
       "data_providers_tool", "agent_config_tool", "browser_tool" >>
DisabledLists ==
    { SelectSeq(DisabledNames, LAMBDA t : t \in S) :
        S \in SUBSET { DisabledNames[i] : i \in 1..Len(DisabledNames) } }

RegisterAllToolsCalls ==
    { [fn |-> "register_all_tools", agent_id |-> a, disabled_tools |-> d,
       rapid_api_key |-> k] :
        a \in {None, "agent-1"}, d \in DisabledLists, k \in BOOLEAN }

MyCoolTool == <<"My", " ", "Cool", " ", "Tool">>
CustomMcpEntries ==
    { CustomMcp(MyCoolTool, None, "sse", None, TRUE),
      CustomMcp(MyCoolTool, None, None, None, TRUE),
      CustomMcp(MyCoolTool, "composio", "sse", None, FALSE),
      CustomMcp(MyCoolTool, None, "composio", "composio.mine", TRUE),
      CustomMcp(MyCoolTool, None, "composio", "", TRUE),
      CustomMcp(MyCoolTool, None, "pipedream", None, FALSE),
      CustomMcp(<<"my_cool_tool">>, None, "sse", None, TRUE),
      CustomMcp(MyCoolTool, None, "sse", None, FALSE) }
ConfiguredMcpLists ==
    { <<>>, <<ConfiguredMcp(<<"exa">>, "exa")>>,
      <<ConfiguredMcp(<<"mine">>, "composio.mine")>> }
CustomMcpLists == UNION { [1..n -> CustomMcpEntries] : n \in 0..MaxMcps }

RegisterMcpToolsCalls ==
    { [fn |-> "register_mcp_tools",
       agent_config |-> AgentDefinition(FALSE, "agent-1", "nokey", NoTools, None,
                                        configured, custom),
       initialized |-> i] :
        configured \in ConfiguredMcpLists, custom \in CustomMcpLists,
        i \in BOOLEAN }

SystemPrompts == {None, "", "   ", " You are a helper. "}
PromptAgents ==
    { NoAgentConfig }
    \cup { AgentDefinition(FALSE, a, "nokey", NoTools, prompt, configured, <<>>) :
             a \in {None, "agent-1"}, prompt \in SystemPrompts,
             configured \in {<<>>, <<ConfiguredMcp(<<"exa">>, "exa")>>} }

BuildSystemPromptCalls ==
    { [fn |-> "build_system_prompt", model_name |-> m, agent_config |-> ac,
       is_agent_builder |-> b, mcp_wrapper_instance |-> w, kb |-> kb] :
        m \in {Gpt5Mini, ClaudeSonnet}, ac \in PromptAgents, b \in BOOLEAN,
        w \in {None, "wrapper"}, kb \in BOOLEAN }

\* The rows of a store, before they get their message_id.
RowKinds ==
    { Row(0, "browser_state", "json", TRUE, TRUE, TRUE, FALSE, FALSE),
      Row(0, "browser_state", "dict", TRUE, TRUE, FALSE, FALSE, FALSE),
      Row(0, "browser_state", "dict", FALSE, FALSE, FALSE, FALSE, FALSE),
      Row(0, "browser_state", "dict", FALSE, TRUE, FALSE, FALSE, FALSE),
      Row(0, "browser_state", "bad", TRUE, TRUE, TRUE, FALSE, FALSE),
      Row(0, "image_context", "json", FALSE, FALSE, FALSE, TRUE, TRUE),
      Row(0, "image_context", "dict", FALSE, FALSE, FALSE, TRUE, FALSE),
      Row(0, "image_context", "dict", FALSE, FALSE, FALSE, FALSE, FALSE),
      Row(0, "image_context", "bad", FALSE, FALSE, FALSE, TRUE, TRUE) }
Stores ==
    UNION { { [i \in 1..n |-> [kinds[i] EXCEPT !.message_id = i]] :
                kinds \in [1..n -> RowKinds] } : n \in 0..MaxRows }

KimiK2 == <<"moonshotai", "/", "kimi-k2">>

BuildTemporaryMessageCalls ==
    { [fn |-> "build_temporary_message", rows |-> rows, model_name |-> m,
       delete_ok |-> d] :
        rows \in Stores, m \in {Gpt5Mini, KimiK2}, d \in BOOLEAN }

\* Model names are built from these pieces, in either case and in any order.
MaxNameLen == 2
NamePieces ==
    { "claude-", "Sonnet", "sonnet", "GPT-4", "gpt-4", "gpt-5-mini",
      "Gemini-2.5-Pro", "gemini-2.5-pro", "Kimi-K2", "kimi-k2" }
ModelNames ==
    UNION { [1..n -> NamePieces] : n \in 0..MaxNameLen }
GetMaxTokensCalls ==
    { [fn |-> "get_max_tokens", model_name |-> m] : m \in ModelNames }

\* One chunk of the stream loop: an assistant chunk whose text is up to
\* MaxSegments segments, each a closing marker or plain text, in any order.
MaxSegments == 3
Segments == { AskMarker, CompleteMarker, TakeoverMarker, <<"x">> }
RECURSIVE Text(_)
Text(segs) == IF segs = <<>> THEN <<>> ELSE Head(segs) \o Text(Tail(segs))
Texts == { Text(segs) : segs \in UNION { [1..n -> Segments] : n \in 0..MaxSegments } }
ChunkCalls ==
    { [fn |-> "xml_tool", chunk |-> chunk, last_tool_call |-> ltc,
       full_response |-> before] :
        chunk \in { AssistantChunk(form, text) :
                        form \in {"dict", "json", "bad"}, text \in Texts }
                  \cup { ToolChunk, PlainStatusChunk, TerminateChunk },
        ltc \in {None, "sb_shell"},
        before \in {<<>>, AssistantText(SplitMarkerHead)} }

Calls ==
    DisabledToolsCalls \cup RegisterAllToolsCalls \cup RegisterMcpToolsCalls
    \cup BuildSystemPromptCalls \cup BuildTemporaryMessageCalls
    \cup GetMaxTokensCalls \cup ChunkCalls

FnInit ==
    /\ pc = "call"
    /\ call \in Calls
    /\ returned = None
    /\ config = AgentConfig(NoAgentConfig, Gpt5Mini, 0, FALSE, None, None)
    /\ env = Env("account-1", ProjectWithSandbox, FALSE, TRUE, FALSE, "none")
    /\ messages = IF call.fn = "build_temporary_message" THEN call.rows ELSE <<>>
    /\ FreshRun

\* The call of helper fn returns.
Returns(fn) ==
    /\ pc = "call"
    /\ call.fn = fn
    /\ pc' = "returned"
    /\ UNCHANGED <<call, config, account_id, env, mcp_wrapper_instance,
                   system_message, iteration_count, continue_execution,
                   last_tool_call, agent_should_terminate, error_detected,
                   iteration, billing_checks, run_thread_calls, responses,
                   yielded, raised_exc, thrown>>

\* lines 803-853
CallGetDisabledTools ==
    /\ Returns("_get_disabled_tools_from_config")
    /\ returned' = GetDisabledToolsFromConfig(call.agent_config)
    /\ UNCHANGED <<tool_registry, messages>>

\* lines 84-144, 233-251
CallRegisterAllTools ==
    /\ Returns("register_all_tools")
    /\ tool_registry' =
           tool_registry \cup
           RegisterAllTools(call.agent_id, call.disabled_tools, call.rapid_api_key)
    /\ returned' = None
    /\ UNCHANGED messages

\* lines 259-369
CallRegisterMcpTools ==
    /\ Returns("register_mcp_tools")
    /\ LET r == RegisterMcpTools(call.agent_config, call.initialized) IN
        /\ returned' = r
        /\ tool_registry' = tool_registry \cup r.tools
    /\ UNCHANGED messages

\* lines 375-623
CallBuildSystemPrompt ==
    /\ Returns("build_system_prompt")
    /\ returned' = BuildSystemPrompt(call.model_name, call.agent_config,
                                     call.is_agent_builder,
                                     call.mcp_wrapper_instance, call.kb)
    /\ UNCHANGED <<tool_registry, messages>>

\* lines 633-751
CallBuildTemporaryMessage ==
    /\ Returns("build_temporary_message")
    /\ LET tm == BuildTemporaryMessage(messages, call.model_name, call.delete_ok) IN
        /\ returned' = tm.message
        /\ messages' = tm.messages
    /\ UNCHANGED tool_registry

\* lines 862-871
CallGetMaxTokens ==
    /\ Returns("get_max_tokens")
    /\ returned' = GetMaxTokens(call.model_name)
    /\ UNCHANGED <<tool_registry, messages>>

\* lines 1000-1046 on one chunk
CallXmlTool ==
    /\ Returns("xml_tool")
    /\ returned' = NextToolCall(call.chunk, call.last_tool_call, call.full_response)
    /\ UNCHANGED <<tool_registry, messages>>

FnNext ==
    \/ CallGetDisabledTools
    \/ CallRegisterAllTools
    \/ CallRegisterMcpTools
    \/ CallBuildSystemPrompt
    \/ CallBuildTemporaryMessage
    \/ CallGetMaxTokens
    \/ CallXmlTool

FnSpec == FnInit /\ [][FnNext]_vars

----------------------------------------------------------------------------
(* Properties of the execution loop *)

Last(seq) == seq[Len(seq)]

RECURSIVE Flatten(_)
Flatten(rs) == IF rs = <<>> THEN <<>> ELSE Head(rs).items \o Flatten(Tail(rs))

\* Every item the engine streams of the run have delivered, in order.
DeliveredItems == Flatten(responses)

\* The chunks yielded by the two relaying yields, in order.
RelayedChunks ==
    LET relayed == SelectSeq(yielded, LAMBDA y : y.line \in {997, 1048})
    IN  [i \in 1..Len(relayed) |-> relayed[i].chunk]

HasItem(r, P(_)) == \E i \in 1..Len(r.items) : P(r.items[i])

HasMarker(text) ==
    \/ Contains(text, AskMarker)
    \/ Contains(text, CompleteMarker)
    \/ Contains(text, TakeoverMarker)

\* A chunk that carries a termination signal: an assistant chunk whose text
\* holds a closing marker, or a status chunk whose metadata sets
\* agent_should_terminate.
TerminationSignal(item) ==
    /\ item.isdict
    /\ \/ /\ item.type = "assistant"
          /\ item.content.form \in {"dict", "json"}
          /\ HasMarker(item.content.text)
       \/ /\ item.type = "status"
          /\ item.metadata.form \in {"dict", "json"}
          /\ item.metadata.agent_should_terminate

StatusError(item) == item.isdict /\ item.type = "status" /\ item.status = "error"

\* C1: with max_iterations = N the run makes at most N run_thread calls and
\* its iteration counter never exceeds N.
C1_IterationBound ==
    /\ iteration_count <= config.max_iterations
    /\ Len(run_thread_calls) <= config.max_iterations

C1_Witness ==
    /\ pc = "done"
    /\ config.max_iterations = MaxIter
    /\ iteration_count = MaxIter
    /\ Len(run_thread_calls) = MaxIter

\* C2: once a stream that carried a termination signal is exhausted, no later
\* iteration starts: that stream's call is the last run_thread call and no
\* billing check follows the one of its iteration.
C2_TerminationStops ==
    \A k \in 1..Len(responses) :
        ( /\ responses[k].kind = "stream"
          /\ responses[k].state = "exhausted"
          /\ HasItem(responses[k], TerminationSignal) )
        => /\ k = Len(responses)
           /\ Len(run_thread_calls) = k
           /\ billing_checks = run_thread_calls[k].iteration
           /\ pc \in {"loop", "done"}
           /\ pc = "loop" => ~continue_execution

C2_Witness ==
    /\ pc = "done"
    /\ Len(responses) = 1
    /\ responses[1].state = "exhausted"
    /\ responses[1].items = <<AssistantChunk("json", <<"Hi there">> \o CompleteMarker)>>
    /\ config.max_iterations = MaxIter
    /\ billing_checks = 1

\* C3: when the latest persisted message of an iteration is the assistant's,
\* the run ends in that iteration, with no run_thread call in it or after it.
C3_AssistantLastStops ==
    iteration.latest = "assistant"
    => /\ pc = "done"
       /\ \A k \in 1..Len(run_thread_calls) :
              run_thread_calls[k].iteration < iteration_count
       /\ Len(run_thread_calls) = iteration_count - 1

C3_Witness ==
    /\ iteration.latest = "assistant"
    /\ iteration_count = 2
    /\ Len(run_thread_calls) = 1

\* C4: a billing rejection with message m yields exactly one chunk in its
\* iteration, {status, stopped, "Billing limit reached: " + m}, makes no
\* run_thread call in it, and nothing is yielded after that chunk.
C4_BillingStop ==
    ~iteration.can_run
    => /\ pc \in {"suspended_break", "done", "closed"}
       /\ Len(yielded) = Len(DeliveredItems) + 1
       /\ Last(yielded).line = 903
       /\ Last(yielded).chunk.type = "status"
       /\ Last(yielded).chunk.status = "stopped"
       /\ Last(yielded).chunk.message = "Billing limit reached: " \o iteration.message
       /\ \A k \in 1..Len(run_thread_calls) :
              run_thread_calls[k].iteration < iteration_count

C4_Witness ==
    /\ pc = "done"
    /\ ~iteration.can_run
    /\ iteration.message = "quota exceeded"
    /\ yielded = <<[line |-> 903,
                    chunk |-> RunnerChunk("stopped",
                                "Billing limit reached: quota exceeded")]>>

\* C5 as stated: every item a stream delivers is yielded, once and in order.
C5_EveryItemRelayed == RelayedChunks = DeliveredItems

\* C5, amended: every chunk that is a mapping is yielded once and in stream
\* order, whatever it carries; an item that is not a mapping is not relayed:
\* the runner yields one status:error chunk of its own and the stream is left.
C5_EveryChunkRelayed ==
    /\ RelayedChunks = SelectSeq(DeliveredItems, LAMBDA item : item.isdict)
    /\ \A k \in 1..Len(responses) :
          \A i \in 1..Len(responses[k].items) :
              ~responses[k].items[i].isdict
              => /\ k = Len(responses) /\ i = Len(responses[k].items)
                 /\ responses[k].state = "abandoned"
                 /\ Last(yielded).line = 1103
                 /\ Last(yielded).chunk.status = "error"

C5_Witness ==
    /\ Len(responses) = 1
    /\ responses[1].items = <<ErrorChunk, BadMetaChunk>>
    /\ RelayedChunks = <<ErrorChunk, BadMetaChunk>>

YieldedError == \E i \in 1..Len(yielded) : yielded[i].chunk.status = "error"

\* The run stopped on an error: run_thread raised or returned an error
\* mapping, the error flag was set, or an exception was caught in the stream
\* loop.
StoppedOnError ==
    /\ pc = "done"
    /\ responses # <<>>
    /\ \/ Last(responses).kind \in {"raise", "error_dict"}
       \/ Last(responses).state \in {"raised", "abandoned"}
       \/ (Last(responses).kind \in {"stream", "other"} /\ error_detected)

\* C6: whenever the run stops on an error, the caller has been yielded a
\* chunk with status error.
C6_ErrorStopHasErrorChunk == StoppedOnError => YieldedError

\* An iteration that met an error: run_thread raised or returned an error
\* mapping, or the stream carried a status/error chunk, raised, or made the
\* stream loop raise.
IsErrorIteration(r) ==
    \/ r.kind \in {"raise", "error_dict"}
    \/ r.state \in {"raised", "abandoned"}
    \/ (r.state = "exhausted" /\ HasItem(r, StatusError))

\* C7: no retry: the call of an iteration that met an error is the last
\* run_thread call of the run.
C7_NoRetry ==
    \A k \in 1..Len(responses) :
        IsErrorIteration(responses[k])
        => /\ k = Len(responses)
           /\ Len(run_thread_calls) = k
           /\ pc \in {"suspended_break", "done", "closed"}

C7_Witness ==
    /\ pc = "done"
    /\ config.max_iterations = MaxIter
    /\ iteration_count = 1
    /\ Len(run_thread_calls) = 1
    /\ responses[1].state = "exhausted"
    /\ HasItem(responses[1], StatusError)
    /\ ~HasItem(responses[1], TerminationSignal)

\* C8: iterations are sequential: every stream but the last has been consumed
\* to exhaustion, so at most one stream is open.
C8_Sequential ==
    /\ \A k \in 1..(Len(responses) - 1) :
           responses[k].kind = "stream" /\ responses[k].state = "exhausted"
    /\ Cardinality({k \in 1..Len(responses) : responses[k].state = "open"}) <= 1
    /\ Len(run_thread_calls) = Len(responses)

C8_Witness ==
    /\ Len(responses) = 2
    /\ responses[1].state = "exhausted"
    /\ Len(responses[1].items) = 1
    /\ responses[2].state = "open"
    /\ Len(responses[2].items) = 1

\* The run so far is max_iterations iterations that each ran their stream to
\* exhaustion with no termination signal, no error and no billing rejection.
AllIterationsClean ==
    /\ iteration_count = config.max_iterations
    /\ Len(responses) = config.max_iterations
    /\ iteration.can_run
    /\ continue_execution
    /\ \A k \in 1..Len(responses) :
           /\ responses[k].kind = "stream"
           /\ responses[k].state = "exhausted"
           /\ ~HasItem(responses[k], TerminationSignal)
           /\ ~HasItem(responses[k], StatusError)

\* C9: after max_iterations clean iterations the generator ends at once and
\* adds no chunk of its own: what it has yielded is the streams' chunks.
C9_NoLimitChunk ==
    [][ (pc = "loop" /\ AllIterationsClean)
        => /\ pc' = "done"
           /\ yielded' = yielded
           /\ \A i \in 1..Len(yielded') : yielded'[i].line \in {997, 1048}
           /\ RelayedChunks' = DeliveredItems' ]_vars

C9_Witness ==
    /\ pc = "done"
    /\ AllIterationsClean
    /\ config.max_iterations = MaxIter
    /\ Len(yielded) = MaxChunks

ConfigurationErrors ==
    { "ValueError: Could not determine account ID for thread",
      "ValueError: Project not found" }

\* C10: an unresolvable account or a missing project is raised out of run()
\* before any tool is registered, any billing check or run_thread call is
\* made or any chunk is yielded; a project without a sandbox id is no error.
C10_ConfigurationError ==
    /\ (pc # "start" /\ (env.account = None \/ env.project_rows = <<>>))
       => /\ pc = "raised"
          /\ raised_exc \in ConfigurationErrors
          /\ tool_registry = {}
          /\ mcp_wrapper_instance = None
          /\ billing_checks = 0
          /\ run_thread_calls = <<>>
          /\ yielded = <<>>
    /\ (pc # "start" /\ env.account # None /\ env.project_rows # <<>>)
       => /\ raised_exc \notin ConfigurationErrors
          /\ pc \notin {"start", "setup_tools"} => CoreTools \subseteq tool_registry

C10_Witness ==
    /\ pc = "raised"
    /\ raised_exc = "ValueError: Project not found"
    /\ env.account # None

\* C11: closing or cancelling the generator inside the loop ends the run
\* there: the exception is not caught, no status:error chunk (nor any other
\* chunk) is yielded for it, and afterwards nothing is yielded and no billing
\* check or run_thread call is made.
C11_CancellationEndsRun ==
    [][ /\ (thrown = None /\ thrown' # None)
           => /\ pc' = "closed"
              /\ yielded' = yielded
        /\ thrown # None
           => /\ pc' = "closed"
              /\ yielded' = yielded
              /\ billing_checks' = billing_checks
              /\ run_thread_calls' = run_thread_calls ]_vars

C11_Witness ==
    /\ pc = "closed"
    /\ thrown = "GeneratorExit"
    /\ Len(responses) = 1
    /\ responses[1].state = "open"
    /\ RelayedChunks = <<PlainStatusChunk>>
    /\ yielded = <<[line |-> 1048, chunk |-> PlainStatusChunk]>>

\* The rows whose image block a returned temporary message holds.
ImageRows(message) ==
    { message.content[i].row :
        i \in { j \in 1..Len(message.content) :
                  message.content[j].part = "image_data" } }

\* C12: an image_context row is consumed exactly once: a row whose image a
\* returned temporary message holds is no longer in the store, and no row's
\* image is in the temporary messages of two calls.
C12_ImageConsumedOnce ==
    /\ \A k \in 1..Len(run_thread_calls) :
          \A r \in ImageRows(run_thread_calls[k].temporary_message) :
              \A i \in 1..Len(messages) : messages[i].message_id # r
    /\ \A k, l \in 1..Len(run_thread_calls) :
          k # l => ImageRows(run_thread_calls[k].temporary_message)
                   \cap ImageRows(run_thread_calls[l].temporary_message) = {}

\* The agent has MCP entries and the wrapper's initialize_and_register_tools()
\* raises.
McpInitializationFails ==
    /\ config.agent_config.present
    /\ ~McpKeyError(config.agent_config)
    /\ AllMcps(config.agent_config) # <<>>
    /\ ~env.mcp_initialized

\* C16: when the wrapper's initialization raises, register_mcp_tools returns
\* None without raising and writes nothing into the tool registry, and the
\* run goes on without MCP tools: setup_mcp_tools is followed by the system
\* prompt (without MCP section) and the loop.
C16_McpFailureTolerated ==
    (McpInitializationFails /\ pc \notin {"start", "setup_tools", "setup_mcp_tools"})
    => /\ mcp_wrapper_instance = None
       /\ tool_registry \cap McpMethods = {}
       /\ tool_registry =
              RegisterAllTools(BuilderAgentId(config),
                               GetDisabledToolsFromConfig(config.agent_config),
                               env.rapid_api_key)
       /\ raised_exc = None
       /\ pc # "raised"
       /\ \A i \in 1..Len(system_message.content) :
              system_message.content[i] # "mcp_info"

C16_Witness ==
    /\ McpInitializationFails
    /\ billing_checks = 1
    /\ Len(run_thread_calls) = 1
    /\ Len(yielded) = 1
    /\ mcp_wrapper_instance = None

----------------------------------------------------------------------------
(* Properties of the helpers, under FnSpec *)

\* The call of helper fn has returned.
Returned(fn) == pc = "returned" /\ call.fn = fn

HasRowOfType(rows, type) == \E i \in 1..Len(rows) : rows[i].type = type

BrowserParts == {"browser_state", "screenshot_url", "screenshot_base64"}
ImageParts == {"image_path", "image_data"}

\* C13: build_temporary_message returns None exactly when no block was
\* assembled, in particular when the store has neither a browser_state nor an
\* image_context row; it never returns a user message with an empty content;
\* otherwise it returns one user message with the browser-state blocks
\* followed by the image-context blocks.
C13_TemporaryMessage ==
    Returned("build_temporary_message") =>
        LET browser == BrowserStateBlocks(call.rows, call.model_name)
            image == ImageContextBlocks(call.rows)
        IN  /\ (returned.role = None) <=> (browser = <<>> /\ image = <<>>)
            /\ returned.role \in {None, "user"}
            /\ returned.role = "user" => returned.content # <<>>
            /\ returned.content = browser \o image
            /\ ( ~HasRowOfType(call.rows, "browser_state")
                 /\ ~HasRowOfType(call.rows, "image_context") )
               => returned.role = None
            /\ \A i, j \in 1..Len(returned.content) :
                  ( /\ returned.content[i].part \in BrowserParts
                    /\ returned.content[j].part \in ImageParts ) => i < j
            /\ \A i \in 1..Len(returned.content) :
                  returned.content[i].part \in BrowserParts \cup ImageParts

C13_Witness ==
    /\ Returned("build_temporary_message")
    /\ returned.role = "user"
    /\ Len(returned.content) = 4
    /\ returned.content[2].part = "screenshot_url"
    /\ returned.content[4].part = "image_data"

\* C14: no two descriptors of the merged MCP list share a qualified name.
C14_QualifiedNamesUnique ==
    Returned("register_mcp_tools") =>
        \A i, j \in 1..Len(returned.all_mcps) :
            i # j => returned.all_mcps[i].qualifiedName
                     # returned.all_mcps[j].qualifiedName

\* The qualified name the rule gives a custom entry whose slug is
\* my_cool_tool: composio keeps a supplied name or gets composio.<slug>, every
\* other type gets custom_<type>_<slug>.
ExpectedQualifiedName(custom_mcp) ==
    LET type == IF custom_mcp.customType # None THEN custom_mcp.customType
                ELSE IF custom_mcp.type # None THEN custom_mcp.type
                ELSE "sse"
    IN  IF type = "composio"
        THEN IF custom_mcp.qualifiedName \in {None, ""}
             THEN "composio.my_cool_tool"
             ELSE custom_mcp.qualifiedName
        ELSE CASE type = "sse" -> "custom_sse_my_cool_tool"
               [] type = "pipedream" -> "custom_pipedream_my_cool_tool"

\* The merged list is the configured entries followed by one descriptor for
\* each custom entry, in input order, named by the rule.
OneDescriptorPerEntry(ac, all_mcps) ==
    /\ Len(all_mcps) = Len(ac.configured_mcps) + Len(ac.custom_mcps)
    /\ SubSeq(all_mcps, 1, Len(ac.configured_mcps)) = ac.configured_mcps
    /\ \A i \in 1..Len(ac.custom_mcps) :
          LET d == all_mcps[Len(ac.configured_mcps) + i] IN
          /\ d.isCustom
          /\ d.name = ac.custom_mcps[i].name
          /\ d.qualifiedName = ExpectedQualifiedName(ac.custom_mcps[i])

\* C15: register_mcp_tools turns every custom entry into exactly one
\* normalized descriptor, appended after the configured entries in input
\* order and named by the rule.
C15_OneDescriptorPerEntry ==
    Returned("register_mcp_tools") =>
        /\ ~returned.raises
        /\ OneDescriptorPerEntry(call.agent_config, returned.all_mcps)

ToSet(list) == { list[i] : i \in 1..Len(list) }

\* An entry that resolves to disabled: false, or a mapping whose enabled
\* value is false.
ResolvesToDisabled(entry) ==
    \/ entry.form = "bool" /\ entry.enabled = "False"
    \/ entry.form = "dict" /\ entry.enabled = "False"

\* The known tool names whose entry in the agent's tool configuration
\* resolves to disabled (by the test Disabled); none when the agent has no
\* tool configuration.
DisabledKnownTools(ac, Disabled(_)) ==
    IF ac.present /\ ac.tools_form = "dict"
    THEN { t \in ToSet(all_tools) \cap DOMAIN ac.agentpress_tools :
             Disabled(ac.agentpress_tools[t]) }
    ELSE {}

PresentationSubTools == {"sb_presentation_outline_tool", "sb_presentation_tool_v2"}

\* C17: the disabled-tools list is exactly the known tool names whose entry
\* resolves to disabled, plus the two presentation sub-tools exactly when
\* sb_presentation_tool is among them.
C17_DisabledTools ==
    Returned("_get_disabled_tools_from_config") =>
        LET disabled == DisabledKnownTools(call.agent_config, ResolvesToDisabled)
        IN  ToSet(returned) =
                disabled \cup (IF "sb_presentation_tool" \in disabled
                               THEN PresentationSubTools ELSE {})

\* C18: register_all_tools registers the three core tools whatever is
\* disabled, each sandbox tool iff it is not disabled, the data-provider tool
\* iff the API key is set and it is not disabled, each agent-builder tool iff
\* an agent id was given and it is not disabled, the browser tool iff it is
\* not disabled, and nothing else; no disabled tool other than a core tool is
\* registered.
C18_RegisteredTools ==
    Returned("register_all_tools") =>
        LET disabled == ToSet(call.disabled_tools) IN
        /\ {"message_tool", "task_list_tool", "expand_message_tool"}
               \subseteq tool_registry
        /\ \A t \in SandboxTools : t \in tool_registry <=> t \notin disabled
        /\ "data_providers_tool" \in tool_registry
               <=> (call.rapid_api_key /\ "data_providers_tool" \notin disabled)
        /\ \A t \in AgentBuilderTools :
               t \in tool_registry <=> (call.agent_id # None /\ t \notin disabled)
        /\ "browser_tool" \in tool_registry <=> "browser_tool" \notin disabled
        /\ tool_registry \subseteq
               CoreTools \cup SandboxTools \cup AgentBuilderTools
               \cup {"data_providers_tool", "browser_tool"}
        /\ \A t \in disabled \ CoreTools : t \notin tool_registry

C18_Witness ==
    /\ Returned("register_all_tools")
    /\ call.disabled_tools = <<"message_tool", "sb_shell_tool", "agent_config_tool">>
    /\ call.agent_id = "agent-1"
    /\ call.rapid_api_key
    /\ "message_tool" \in tool_registry
    /\ "sb_shell_tool" \notin tool_registry
    /\ "agent_config_tool" \notin tool_registry
    /\ "workflow_tool" \in tool_registry
    /\ "data_providers_tool" \in tool_registry

\* C19: for a model name without "anthropic" the system prompt holds the
\* sample-assistant-response block, whichever base was selected.
C19_SampleResponseAppended ==
    ( /\ Returned("build_system_prompt")
      /\ \A i \in 1..Len(call.model_name) :
             call.model_name[i] \notin {"anthropic", "Anthropic"} )
    => \E i \in 1..Len(returned.content) :
           returned.content[i] = "sample_assistant_response"

\* The parts build_system_prompt appends to the base.
AppendedParts ==
    {"sample_assistant_response", "knowledge_base", "mcp_info", "datetime_info"}

\* The agent has a custom system prompt: the key is present and not empty.
HasCustomPrompt(ac) == ac.present /\ ac.system_prompt # None /\ ac.system_prompt # ""

\* C20: the base of the system prompt is the agent-builder prompt whenever
\* is_agent_builder is set, otherwise the agent's custom system_prompt when
\* present and non-empty, otherwise the default prompt; exactly one of the
\* three is in the prompt.
C20_BaseSelection ==
    Returned("build_system_prompt") =>
        LET base == returned.content[1]
            custom == CASE call.agent_config.system_prompt = " You are a helper. "
                             -> "You are a helper."
                        [] call.agent_config.system_prompt = "   " -> ""
                        [] OTHER -> call.agent_config.system_prompt
        IN  /\ call.is_agent_builder => base = "agent_builder_prompt"
            /\ (~call.is_agent_builder /\ HasCustomPrompt(call.agent_config))
               => base = custom
            /\ (~call.is_agent_builder /\ ~HasCustomPrompt(call.agent_config))
               => base = "default_prompt"
            /\ SelectSeq(returned.content, LAMBDA part : part \notin AppendedParts)
               = <<base>>

C20_Witness ==
    /\ Returned("build_system_prompt")
    /\ call.is_agent_builder
    /\ call.agent_config.system_prompt = " You are a helper. "
    /\ returned.content[1] = "agent_builder_prompt"
    /\ Len(returned.content) = 2

\* C21: get_max_tokens depends only on the lower-cased model name and tests
\* its substrings in a fixed order: "sonnet" gives 8192, else "gpt-4" gives
\* 4096, else "gemini-2.5-pro" gives 64000, else "kimi-k2" gives 8192, else
\* there is no override (None, written 0); when several substrings occur the
\* earliest in that order wins, wherever it stands in the name.
NameHas(name, s) == \E i \in 1..Len(name) : LowerPiece(name[i]) = s
C21_MaxTokensPrecedence ==
    Returned("get_max_tokens") =>
        LET n == call.model_name IN
        /\ NameHas(n, "sonnet") => returned = 8192
        /\ ~NameHas(n, "sonnet") /\ NameHas(n, "gpt-4") => returned = 4096
        /\ ~NameHas(n, "sonnet") /\ ~NameHas(n, "gpt-4")
               /\ NameHas(n, "gemini-2.5-pro") => returned = 64000
        /\ ~NameHas(n, "sonnet") /\ ~NameHas(n, "gpt-4")
               /\ ~NameHas(n, "gemini-2.5-pro") /\ NameHas(n, "kimi-k2")
               => returned = 8192
        /\ ~NameHas(n, "sonnet") /\ ~NameHas(n, "gpt-4")
               /\ ~NameHas(n, "gemini-2.5-pro") /\ ~NameHas(n, "kimi-k2")
               => returned = 0
C21_Witness ==
    /\ Returned("get_max_tokens")
    /\ call.model_name = <<"GPT-4", "Sonnet">>
    /\ returned = 8192

\* C22: when the text of one assistant chunk holds several closing markers,
\* the recorded tool follows the priority ask, then complete, then
\* web-browser-takeover, whatever the order of the markers in the text.
C22_MarkerPriority ==
    Returned("xml_tool") /\ ~LoadsRaises(call.chunk.content) =>
        LET t == call.chunk.content.text IN
        /\ Contains(t, AskMarker) => returned = "ask"
        /\ ~Contains(t, AskMarker) /\ Contains(t, CompleteMarker)
               => returned = "complete"
        /\ ~Contains(t, AskMarker) /\ ~Contains(t, CompleteMarker)
               /\ Contains(t, TakeoverMarker) => returned = "web-browser-takeover"
C22_Witness ==
    /\ Returned("xml_tool")
    /\ call.chunk.content.form = "json"
    /\ call.chunk.content.text = TakeoverMarker \o CompleteMarker \o AskMarker
    /\ returned = "ask"

\* C23: the AgentConfig of a run is never mutated after construction:
\* no step of the run changes any of its fields, the trace handle and the
\* agent-definition mapping included.
C23_ConfigNeverMutated == [][config' = config]_vars

\* C24: build_temporary_message deletes an image_context row only after
\* serving it: whenever a call removes a row from the store, the message it
\* returns holds the image block built from that row.
C24_DeletedOnlyAfterServed ==
    Returned("build_temporary_message") =>
        \A i \in 1..Len(call.rows) :
            (\A k \in 1..Len(messages) :
                 messages[k].message_id # call.rows[i].message_id)
            => \E j \in 1..Len(returned.content) :
                   /\ returned.content[j].part = "image_data"
                   /\ returned.content[j].row = call.rows[i].message_id

\* A chunk with malformed JSON: a status chunk whose metadata or content, or
\* an assistant chunk whose content, is a str that does not parse.
Malformed(item) ==
    /\ item.isdict
    /\ \/ item.type = "status" /\ item.status # "error" /\ item.metadata.form = "bad"
       \/ item.type = "status" /\ item.status # "error" /\ item.content.form = "bad"
       \/ item.type = "assistant" /\ item.content.form = "bad"

\* C25: malformed JSON in a chunk is never fatal: it does not set the error
\* flag, it does not end the consumption of the stream, the chunk is yielded
\* like any other, it does not stop the run by itself, and a termination
\* signal later in the same stream is still honoured.
C25_MalformedNotFatal ==
    /\ error_detected
       => \/ HasItem(Last(responses), StatusError)
          \/ Last(responses).kind # "stream"
          \/ Last(responses).state \in {"raised", "abandoned"}
    /\ \A k \in 1..Len(responses) :
          LET r == responses[k] IN
          /\ \A i \in 1..Len(r.items) :
                Malformed(r.items[i])
                => /\ ~(r.state = "abandoned" /\ i = Len(r.items))
                   /\ ( k = Len(responses) /\ i = Len(r.items)
                        /\ pc = "suspended_stream" )
                      => /\ Last(yielded) = [line |-> 1048, chunk |-> r.items[i]]
                         /\ r.state = "open"
                   /\ ( r.state = "exhausted"
                        /\ \E j \in (i + 1)..Len(r.items) :
                               TerminationSignal(r.items[j]) )
                      => /\ k = Len(responses)
                         /\ pc \in {"loop", "done"}
                         /\ pc = "loop" => ~continue_execution
          /\ ( /\ r.kind = "stream" /\ r.state = "exhausted"
               /\ k = Len(responses) /\ pc = "loop"
               /\ ~HasItem(r, TerminationSignal)
               /\ ~HasItem(r, StatusError) )
             => continue_execution

C25_Witness ==
    /\ pc = "done"
    /\ Len(responses) = 1
    /\ responses[1].state = "exhausted"
    /\ responses[1].items = <<BadMetaChunk, TerminateChunk>>
    /\ RelayedChunks = <<BadMetaChunk, TerminateChunk>>
    /\ ~error_detected
    /\ config.max_iterations = MaxIter

\* The run has ended: the generator returned, an exception left it, or it
\* was closed or cancelled.
Ended == pc \in {"done", "raised", "closed"}

\* C26: when every external call returns and every engine stream is finite,
\* every run eventually ends.
C26_RunEnds == <>Ended

C26_Witness ==
    /\ pc = "done"
    /\ thrown = None
    /\ config.max_iterations = MaxIter
    /\ iteration_count = MaxIter
    /\ Len(responses) = MaxIter
    /\ continue_execution

\* The positions of run() before its loop.
SetupPcs == {"start", "setup_tools", "setup_mcp_tools", "build_system_prompt"}

\* C27: setup fully precedes the loop and happens once: once run() has left
\* its setup it never returns to it, nothing of the loop happens during it,
\* the tool registry, the MCP wrapper and the system message are never
\* written again, and every run_thread call receives that same system message.
C27_SetupPrecedesLoop ==
    /\ [] ( /\ pc \in SetupPcs
               => /\ billing_checks = 0 /\ iteration_count = 0
                  /\ run_thread_calls = <<>> /\ yielded = <<>>
            /\ \A k \in 1..Len(run_thread_calls) :
                  /\ run_thread_calls[k].system_prompt = system_message
                  /\ system_message.role = "system" )
    /\ [][ pc \notin SetupPcs
           => /\ pc' \notin SetupPcs
              /\ tool_registry' = tool_registry
              /\ mcp_wrapper_instance' = mcp_wrapper_instance
              /\ system_message' = system_message ]_vars

C27_Witness ==
    /\ Len(run_thread_calls) = 2
    /\ run_thread_calls[1].system_prompt = system_message
    /\ run_thread_calls[2].system_prompt = system_message
    /\ mcp_wrapper_instance = "wrapper"
    /\ McpMethods \subseteq tool_registry

\* The blocks of a temporary message that come from the browser state.
BrowserBlocksOf(tm) == SelectSeq(tm.content, LAMBDA b : b.part \in BrowserParts)

\* C28: the temporary message is never persisted: the only change an
\* iteration makes to the store is the delete of the single latest
\* image_context row; no row is added or rewritten, browser_state rows are
\* never deleted, and so every iteration is given the same browser state.
C28_TemporaryMessageNotPersisted ==
    /\ [][ \/ messages' = messages
           \/ LET i == LatestOfType(messages, "image_context") IN
              /\ i # 0
              /\ messages' = SubSeq(messages, 1, i - 1)
                               \o SubSeq(messages, i + 1, Len(messages)) ]_vars
    /\ [] \A k \in 1..Len(run_thread_calls) :
             BrowserBlocksOf(run_thread_calls[k].temporary_message)
             = BrowserStateBlocks(messages, config.model_name)

C28_Witness ==
    /\ Len(run_thread_calls) = 2
    /\ HasRowOfType(messages, "browser_state")
    /\ ~HasRowOfType(messages, "image_context")
    /\ Len(run_thread_calls[1].temporary_message.content) = 4
    /\ run_thread_calls[2].temporary_message.content
       = BrowserBlocksOf(run_thread_calls[1].temporary_message)
    /\ Len(run_thread_calls[2].temporary_message.content) = 2

\* C29: an empty tool mapping gives an empty disabled list, for a Suna
\* default agent and for any other; and for every tool configuration the
\* list derived does not depend on the is_suna_default marker.
C29_MarkerIrrelevant ==
    Returned("_get_disabled_tools_from_config") /\ call.agent_config.present =>
        LET ac == call.agent_config
            flipped == [ac EXCEPT !.is_suna_default = ~@]
        IN  /\ returned = GetDisabledToolsFromConfig(flipped)
            /\ (ac.tools_form = "dict" /\ DOMAIN ac.agentpress_tools = {})
               => returned = <<>>

C29_Witness ==
    /\ Returned("_get_disabled_tools_from_config")
    /\ call.agent_config.present
    /\ ~call.agent_config.is_suna_default
    /\ call.agent_config.tools_form = "dict"
    /\ DOMAIN call.agent_config.agentpress_tools = {}
    /\ returned = <<>>

\* The last stream of the run was consumed to its end and none of its chunks
\* is a termination signal or an error: no status chunk asks to terminate and
\* no assistant chunk holds a whole closing marker in its own text.
LastStreamCarriesNoSignal ==
    /\ pc = "loop"
    /\ responses # <<>>
    /\ Last(responses).kind = "stream"
    /\ Last(responses).state = "exhausted"
    /\ ~HasItem(Last(responses), TerminationSignal)
    /\ ~HasItem(Last(responses), StatusError)

\* C30: marker detection is per chunk: a stream none of whose chunks holds a
\* whole marker, a marker cut by the boundary of two consecutive assistant
\* chunks included, ends its iteration without stopping the run, and while
\* the iteration count is below max_iterations the next step of the run is
\* the billing check of a further iteration.
C30_PerChunkDetection ==
    /\ [] ( LastStreamCarriesNoSignal
            => /\ continue_execution
               /\ last_tool_call \notin TerminalTools
               /\ ~agent_should_terminate
               /\ iteration_count < config.max_iterations
                  => LoopCondition(continue_execution, iteration_count,
                                   config.max_iterations) )
    /\ [][ (LastStreamCarriesNoSignal /\ iteration_count < config.max_iterations)
           => /\ iteration_count' = iteration_count + 1
              /\ billing_checks' = billing_checks + 1 ]_vars

C30_Witness ==
    /\ Len(responses) = 2
    /\ responses[1].state = "exhausted"
    /\ responses[1].items = <<SplitMarkerHead, SplitMarkerTail>>
    /\ Contains(FullResponse(responses[1].items), AskMarker)
    /\ billing_checks = 2
    /\ Len(run_thread_calls) = 2

====
